---- MODULE Spec2Model ----
(***************************************************************************)
(* A model of final_full_article_scraper.py: the pagination resolver       *)
(* get_page_no, the content extractor extract_full_article and the crawl   *)
(* loop of save_company_data_with_full_articles.                           *)
(*                                                                         *)
(* A Python str is modelled as a sequence of one-character strings, so     *)
(* that indexing, slicing, len(), strip() and the two re.sub() calls are   *)
(* computed character by character.                                        *)
(***************************************************************************)
EXTENDS Integers, Sequences, FiniteSets

VARIABLES
    \* ---- get_page_no, called on its own (PageSpec) ----
    first_page,             \* what requests.get(url) + BeautifulSoup give for the first listing page
    page_result,            \* the pair get_page_no returned, or "pending"
    \* ---- extract_full_article, called on its own (ExtractSpec) ----
    article_page,           \* what requests.get(article_url) + BeautifulSoup give
    joined,                 \* article_content before the clean-up (line 109)
    normalized,             \* article_content after line 115
    ret,                    \* the returned string, or "pending"
    \* ---- save_company_data_with_full_articles (Spec) ----
    pc,                     \* "start", "fetch", "scan", "target_done", "done" ("idle": not called)
    sc_id, years,           \* the arguments
    max_articles_per_company,   \* <<>> for None, <<q>> for the integer q
    c_idx, y_idx,           \* positions of `company` in sc_id and of `year` in years
    max_page_no, max_next,  \* lines 161-162
    i, j,                   \* loop variables of lines 166-167
    articles, k,            \* the loop of line 177: the entries of the page not scanned yet, and the
                            \* position on the page of the first of them
    articles_processed,     \* line 164
    total_articles_processed,   \* line 143
    all_data,               \* line 142
    \* ---- history of the run, read only by the properties ----
    fetched,                \* listing pages requested for the current target, in order: <<i, j>>
    failed_pages,           \* listing pages of the run whose fetch or parse failed: <<c_idx, y_idx, i, j>>
    valid_found,            \* valid entries on the pages of the current target fetched so far
    extract_calls,          \* calls of extract_full_article for the current target
    links,                  \* the link <<i, j, k>> of every record appended for the current target
    last_attempt,           \* the latest call of extract_full_article for the current target
    last_request,           \* the latest listing request: kind, outcome, whether its page ended on the quota
    slept,                  \* TRUE iff time.sleep(1) ran since the latest listing request
    last_gap,               \* what preceded the latest listing request, if one did
    n_faults                \* failed requests and parses so far

pagevars    == <<first_page, page_result>>
extractvars == <<article_page, joined, normalized, ret>>
crawlvars   == <<pc, sc_id, years, max_articles_per_company,
                 c_idx, y_idx, max_page_no, max_next, i, j, articles, k,
                 articles_processed, total_articles_processed, all_data,
                 fetched, failed_pages, valid_found, extract_calls, links, last_attempt,
                 last_request, slept, last_gap, n_faults>>
vars        == <<pagevars, extractvars, crawlvars>>

-----------------------------------------------------------------------------
(* Strings *)

Digits == {"0", "1", "2"}

DigitValue(c) == CASE c = "0" -> 0 [] c = "1" -> 1 [] c = "2" -> 2

\* str.isspace on one character
IsSpace(c) == c \in {" ", "\n"}

\* str.isdigit: every character is a digit and there is at least one
IsDigitStr(s) == Len(s) > 0 /\ \A n \in 1..Len(s) : s[n] \in Digits

\* any(map(str.isdigit, s)): some character of s is a digit
AnyDigit(s) == \E n \in 1..Len(s) : s[n] \in Digits

RECURSIVE LStrip(_)
LStrip(s) == IF s # <<>> /\ IsSpace(Head(s)) THEN LStrip(Tail(s)) ELSE s

RECURSIVE RStrip(_)
RStrip(s) == IF s # <<>> /\ IsSpace(s[Len(s)]) THEN RStrip(SubSeq(s, 1, Len(s) - 1)) ELSE s

\* str.strip()
Strip(s) == RStrip(LStrip(s))

RECURSIVE DecimalValue(_)
DecimalValue(s) == IF s = <<>> THEN 0
                   ELSE 10 * DecimalValue(SubSeq(s, 1, Len(s) - 1)) + DigitValue(s[Len(s)])

\* int(s) accepts surrounding whitespace and raises ValueError on anything
\* else that is not a run of digits (the alphabet has no sign and no "_").
IntRaises(s) == ~IsDigitStr(Strip(s))
IntOf(s)     == DecimalValue(Strip(s))

RECURSIVE MaxOf(_)
MaxOf(ns) == IF Len(ns) = 1 THEN ns[1]
             ELSE LET m == MaxOf(Tail(ns)) IN IF ns[1] >= m THEN ns[1] ELSE m

-----------------------------------------------------------------------------
(* get_page_no *)

\* The pair get_page_no returns; `next` is passed through unchanged.
PagePair(n, next) == <<n, next>>

\* Lines 37-46: the page count read off the anchor texts. int(page_list[-1])
\* raising ValueError lands in the `except Exception` of line 51.
LastIsNumber(page_list) == AnyDigit(page_list[Len(page_list)])

numeric_pages(page_list) ==
    LET keep == SelectSeq(page_list, IsDigitStr)
    IN  [n \in 1..Len(keep) |-> IntOf(keep[n])]

PageCountOf(page_list) ==
    IF LastIsNumber(page_list)
    THEN IF IntRaises(page_list[Len(page_list)]) THEN 1
         ELSE IntOf(page_list[Len(page_list)])
    ELSE IF numeric_pages(page_list) # <<>> THEN MaxOf(numeric_pages(page_list))
         ELSE 1

\* Lines 13-53. page is the outcome of the request and of the parse:
\*   transport_error  requests.get / raise_for_status raised RequestException
\*   parse_error      BeautifulSoup or a later call raised another Exception
\*   no_region        no div of class "pages MR10 MT15"
\*   region           the div exists; anchors are the texts of its <a> elements
get_page_no(page, next) ==
    CASE page.kind = "transport_error" -> PagePair(1, next)
      [] page.kind = "parse_error"     -> PagePair(1, next)
      [] page.kind = "no_region"       -> PagePair(1, next)
      [] page.kind = "region" ->
            IF page.anchors = <<>> THEN PagePair(1, next)
            ELSE PagePair(PageCountOf(page.anchors), next)

-----------------------------------------------------------------------------
(* extract_full_article *)

\* Line 118
ContentLimit == 15000

\* Line 108
BodyMinLen == 50

\* Line 119: "... [Content truncated]"
TruncationMarker ==
    <<".", ".", ".", " ", "[", "C", "o", "n", "t", "e", "n", "t", " ",
      "t", "r", "u", "n", "c", "a", "t", "e", "d", "]">>

\* Line 125: "Error: Could not fetch article content"
FetchSentinel ==
    <<"E", "r", "r", "o", "r", ":", " ", "C", "o", "u", "l", "d", " ",
      "n", "o", "t", " ", "f", "e", "t", "c", "h", " ", "a", "r", "t",
      "i", "c", "l", "e", " ", "c", "o", "n", "t", "e", "n", "t">>

\* Line 128: "Error: Could not parse article content"
ParseSentinel ==
    <<"E", "r", "r", "o", "r", ":", " ", "C", "o", "u", "l", "d", " ",
      "n", "o", "t", " ", "p", "a", "r", "s", "e", " ", "a", "r", "t",
      "i", "c", "l", "e", " ", "c", "o", "n", "t", "e", "n", "t">>

\* The "\n\n" of lines 95 and 108
BlankLine == <<"\n", "\n">>

\* sep.join(texts)
RECURSIVE Join(_, _)
Join(texts, sep) == IF texts = <<>> THEN <<>>
                    ELSE IF Len(texts) = 1 THEN texts[1]
                    ELSE texts[1] \o sep \o Join(Tail(texts), sep)

\* get_text(strip=True) of an element holding one text node
GetText(elem) == Strip(elem)

IsNonEmpty(s) == s # <<>>

\* Line 95: [p.get_text(strip=True) for p in paragraphs if p.get_text(strip=True)]
ParagraphTexts(paragraphs) ==
    SelectSeq([n \in 1..Len(paragraphs) |-> GetText(paragraphs[n])], IsNonEmpty)

IsLongText(s) == s # <<>> /\ Len(s) > BodyMinLen

\* Line 108: the body elements whose stripped text is longer than 50
BodyTexts(elems) ==
    SelectSeq([n \in 1..Len(elems) |-> GetText(elems[n])], IsLongText)

\* Lines 85-96. regions holds, in the order of article_selectors, what
\* find_all(['p', 'h1', ...]) gives inside the element each matching selector
\* selects; the loop stops at the first one that has any.
RECURSIVE SelectorContent(_)
SelectorContent(regions) ==
    IF regions = <<>> THEN <<>>
    ELSE IF Head(regions) # <<>> THEN Join(ParagraphTexts(Head(regions)), BlankLine)
    ELSE SelectorContent(Tail(regions))

\* Lines 99-108
BodyContent(page) ==
    IF page.has_body THEN Join(BodyTexts(page.body), BlankLine) ELSE <<>>

\* re.sub(r'\s+', ' ', s), line 113: every maximal run of whitespace
\* becomes one space.
KeepChar(c) == c # ""
CollapseWhitespace(s) ==
    SelectSeq([n \in 1..Len(s) |->
                  IF IsSpace(s[n])
                  THEN IF n > 1 /\ IsSpace(s[n - 1]) THEN "" ELSE " "
                  ELSE s[n]],
              KeepChar)

\* The maximal run of whitespace around position n of s
RECURSIVE RunStart(_, _)
RunStart(s, n) == IF n = 1 \/ ~IsSpace(s[n - 1]) THEN n ELSE RunStart(s, n - 1)
RECURSIVE RunEnd(_, _)
RunEnd(s, n) == IF n = Len(s) \/ ~IsSpace(s[n + 1]) THEN n ELSE RunEnd(s, n + 1)

\* re.sub(r'\n\s*\n', '\n\n', s), line 114: in a run of whitespace holding
\* two or more newlines, the stretch from the first newline to the last one
\* becomes "\n\n"; whitespace before the first and after the last stays.
CollapseBlankLines(s) ==
    SelectSeq([n \in 1..Len(s) |->
                  IF ~IsSpace(s[n]) THEN s[n]
                  ELSE LET nl    == {m \in RunStart(s, n)..RunEnd(s, n) : s[m] = "\n"}
                           first == CHOOSE m \in nl : \A o \in nl : m <= o
                           last  == CHOOSE m \in nl : \A o \in nl : m >= o
                       IN  IF Cardinality(nl) < 2 \/ n < first \/ n > last THEN s[n]
                           ELSE IF n <= first + 1 THEN "\n"
                           ELSE ""],
              KeepChar)

\* Lines 113-115
Normalize(s) == Strip(CollapseBlankLines(CollapseWhitespace(s)))

\* Truncate with the comparison of line 118 taken as >=
TruncateAtLimit(s) ==
    IF Len(s) >= ContentLimit
    THEN SubSeq(s, 1, ContentLimit) \o TruncationMarker
    ELSE s

\* Lines 118-119
Truncate(s) ==
    IF Len(s) > ContentLimit
    THEN SubSeq(s, 1, ContentLimit) \o TruncationMarker
    ELSE s

\* Lines 111-121: the clean-up of a non-empty article_content. The result
\* carries article_content at three places of the function: before the
\* clean-up, after line 115, and as returned.
CleanedSteps(content, cleaned) ==
    [joined |-> content, normalized |-> cleaned, ret |-> Truncate(cleaned)]

ContentSteps(content) ==
    IF content # <<>> THEN CleanedSteps(content, Normalize(content))
    ELSE [joined |-> content, normalized |-> content, ret |-> content]

\* Line 99: the body is used only if the selectors gave nothing
ContentOf(bySelector, page) ==
    IF bySelector # <<>> THEN bySelector ELSE BodyContent(page)

\* Lines 59-128. page is the outcome of the request and of the parse:
\*   transport_error  requests.get / raise_for_status raised RequestException
\*   parse_error      any other Exception after the fetch
\*   ok               regions, has_body and body describe the document
ExtractSteps(page) ==
    CASE page.kind = "transport_error" ->
            [joined |-> <<>>, normalized |-> <<>>, ret |-> FetchSentinel]
      [] page.kind = "parse_error" ->
            [joined |-> <<>>, normalized |-> <<>>, ret |-> ParseSentinel]
      [] page.kind = "ok" ->
            ContentSteps(ContentOf(SelectorContent(page.regions), page))

\* extract_full_article with the two `return "Error: ..."` lines left out
ExtractWithoutSentinel(page) ==
    IF page.kind = "ok" THEN ExtractSteps(page).ret ELSE <<>>

extract_full_article(page) == ExtractSteps(page).ret

-----------------------------------------------------------------------------
(* Inputs *)

\* Bounds of the inputs
MaxAnchors      == 3    \* anchors in the pagination region
MaxTextLen      == 2    \* characters of an anchor text
MaxParas        == 2    \* paragraphs of a content region (short texts)
MaxEmptyRegions == 1    \* matching selectors without paragraphs before the one that has some

RECURSIVE StringsOver(_, _)
StringsOver(alphabet, n) ==
    IF n = 0 THEN {<<>>}
    ELSE LET shorter == StringsOver(alphabet, n - 1)
         IN  shorter \cup {Append(s, c) : s \in shorter, c \in alphabet}

RECURSIVE ListsOver(_, _)
ListsOver(items, n) ==
    IF n = 0 THEN {<<>>}
    ELSE LET shorter == ListsOver(items, n - 1)
         IN  shorter \cup {Append(l, x) : l \in shorter, x \in items}

\* "N" stands for any character that is neither a digit nor whitespace
AnchorTexts == StringsOver(Digits \cup {"N", " "}, MaxTextLen)

FirstPages ==
    {[kind |-> "transport_error"], [kind |-> "parse_error"], [kind |-> "no_region"]}
    \cup {[kind |-> "region", anchors |-> l] : l \in ListsOver(AnchorTexts, MaxAnchors)}

Rep(c, n) == [m \in 1..n |-> c]

ShortTexts ==
    { <<>>, <<"a">>, <<" ", "a">>, <<"b", " ", "\n">>, <<"a", " ", "b">>,
      <<"a", " ", " ", "b">>, <<"a", "\n", "b">>, <<"\n", "\n">> }

\* Paragraph lists around the limit of line 118
LongParagraphLists ==
    { <<Rep("a", 14999)>>, <<Rep("a", 15000)>>, <<Rep("a", 15001)>>, <<Rep("a", 20000)>>,
      <<Rep("a", 7499), Rep("b", 7500)>>, <<Rep("a", 7500), Rep("b", 7500)>>,
      <<<<" ">> \o Rep("a", 15000) \o <<"\n">>>>,
      <<Rep("a", 14990) \o <<" ", " ", " ">> \o Rep("b", 9)>> }

ParagraphLists == ListsOver(ShortTexts, MaxParas) \cup LongParagraphLists

Bodies ==
    { [has_body |-> FALSE, body |-> <<>>],
      [has_body |-> TRUE,  body |-> <<>>],
      [has_body |-> TRUE,  body |-> <<Rep("a", 50)>>],
      [has_body |-> TRUE,  body |-> <<Rep("a", 51), <<"b">>, Rep("b", 51) \o <<" ">>>>],
      [has_body |-> TRUE,  body |-> <<Rep("a", 15001)>>] }

ArticlePages ==
    {[kind |-> "transport_error"], [kind |-> "parse_error"]}
    \cup {[kind     |-> "ok",
           regions  |-> [n \in 1..e |-> <<>>] \o (IF ps = <<>> THEN <<>> ELSE <<ps>>),
           has_body |-> b.has_body,
           body     |-> b.body] :
             e \in 0..MaxEmptyRegions, ps \in ParagraphLists, b \in Bodies}

-----------------------------------------------------------------------------
(* The three functions as state machines *)

\* Line 156
BaselineNext == 0

PageIdle == /\ first_page = [kind |-> "no_region"]
            /\ page_result = "pending"

ExtractIdle == /\ article_page = [kind |-> "transport_error"]
               /\ joined = "pending"
               /\ normalized = "pending"
               /\ ret = "pending"

CrawlIdle == /\ pc = "idle"
             /\ sc_id = <<>>
             /\ years = <<>>
             /\ max_articles_per_company = <<>>
             /\ c_idx = 1
             /\ y_idx = 1
             /\ max_page_no = 1
             /\ max_next = 1
             /\ i = 0
             /\ j = 1
             /\ articles = <<>>
             /\ k = 1
             /\ articles_processed = 0
             /\ total_articles_processed = 0
             /\ all_data = <<>>
             /\ fetched = <<>>
             /\ failed_pages = <<>>
             /\ valid_found = 0
             /\ extract_calls = 0
             /\ links = <<>>
             /\ last_attempt = [kind |-> "none"]
             /\ last_request = [kind |-> "none"]
             /\ slept = FALSE
             /\ last_gap = [kind |-> "none"]
             /\ n_faults = 0

\* ---- get_page_no on every first listing page ----
PageInit == /\ first_page \in FirstPages
            /\ page_result = "pending"
            /\ ExtractIdle
            /\ CrawlIdle

ResolvePagination ==
    /\ page_result = "pending"
    /\ page_result' = get_page_no(first_page, BaselineNext)
    /\ UNCHANGED <<first_page, extractvars, crawlvars>>

PageNext == ResolvePagination

PageSpec == PageInit /\ [][PageNext]_vars

\* ---- extract_full_article on every article page ----
ExtractInit == /\ article_page \in ArticlePages
               /\ joined = "pending"
               /\ normalized = "pending"
               /\ ret = "pending"
               /\ PageIdle
               /\ CrawlIdle

\* What one call leaves behind
Returned(steps) ==
    /\ joined' = steps.joined
    /\ normalized' = steps.normalized
    /\ ret' = steps.ret

ExtractArticle ==
    /\ ret = "pending"
    /\ Returned(ExtractSteps(article_page))
    /\ UNCHANGED <<article_page, pagevars, crawlvars>>

ExtractNext == ExtractArticle

ExtractSpec == ExtractInit /\ [][ExtractNext]_vars

-----------------------------------------------------------------------------
(* save_company_data_with_full_articles *)

\* Bounds of the crawl
MaxEntries == 2     \* div.FL.PR20 entries on one listing page
MaxQuota   == 2     \* largest max_articles_per_company
MaxFaults  == 1     \* failed requests and parses in one run

\* sc_id and years of a call
Runs == { [sc_id |-> <<"AB16">>,       years |-> <<2025>>],
          [sc_id |-> <<"AB16">>,       years |-> <<2024, 2025>>],
          [sc_id |-> <<"AB16", "RI">>, years |-> <<2025>>] }

\* max_articles_per_company: None, or an integer
Quotas == {<<>>} \cup {<<q>> : q \in 0..MaxQuota}

\* The calls: a quota of 0 goes the way of None at every test of the limit
\* (Truthy below) and is tried on the calls with one target
Calls == {call \in Runs \X Quotas :
            call[2] = <<0>> => Len(call[1].sc_id) * Len(call[1].years) = 1}

\* An entry of a listing page (lines 184-193):
\*   no_anchor  no a.arial11_summ inside it
\*   bad_link   the anchor has no href, or one that does not start with 'http'
\*   valid      the anchor's href starts with 'http'
EntryKinds == {"valid", "no_anchor", "bad_link"}

ListingEntries == ListsOver(EntryKinds, MaxEntries)

RECURSIVE CountValid(_)
CountValid(entries) ==
    IF entries = <<>> THEN 0
    ELSE (IF Head(entries) = "valid" THEN 1 ELSE 0) + CountValid(Tail(entries))

\* First listing pages met in a crawl: page counts 0, 1 and 2
CrawlFirstPages ==
    {[kind |-> "transport_error"], [kind |-> "parse_error"], [kind |-> "no_region"]}
    \cup {[kind |-> "region", anchors |-> <<<<d>>>>] : d \in Digits}

\* Article pages met in a crawl
CrawlArticlePages ==
    {[kind |-> "transport_error"], [kind |-> "parse_error"],
     [kind |-> "ok", regions |-> <<<<<<"a">>, <<"b">>>>>>, has_body |-> FALSE, body |-> <<>>]}

IsFailure(page) == page.kind \in {"transport_error", "parse_error"}

\* The truth value Python gives max_articles_per_company: None and 0 are false
Truthy(max) == max # <<>> /\ max[1] # 0

\* The limit test with its comparison taken as >
QuotaExceeded(processed, max) == Truthy(max) /\ processed > max[1]

\* Lines 179, 232 and 246:
\* max_articles_per_company and articles_processed >= max_articles_per_company
QuotaReached(processed, max) == Truthy(max) /\ processed >= max[1]

\* The windows with max_next itself included
WindowRangeInclusive(n) == 0..n

\* range(max_next), line 166
WindowRange(n) == 0..(n - 1)

\* range(1, max_page_no + 1), line 167
PageRange(n) == 1..n

company == sc_id[c_idx]
year    == years[y_idx]

TargetDone(w, p) == [pc |-> "target_done", i |-> w, j |-> p]
FetchAt(w, p)    == [pc |-> "fetch", i |-> w, j |-> p]

\* Lines 246-247, then the next iteration of line 166: the inner loop over
\* the pages of window w has ended.
AfterWindow(w, p, reached) ==
    IF reached THEN TargetDone(w, p)
    ELSE IF w + 1 \in WindowRange(max_next) /\ 1 \in PageRange(max_page_no)
         THEN FetchAt(w + 1, 1)
         ELSE TargetDone(w, p)

\* The next iteration of line 167 after page p of window w
NextPosition(w, p, reached) ==
    IF p + 1 \in PageRange(max_page_no) THEN FetchAt(w, p + 1)
    ELSE AfterWindow(w, p, reached)

\* A failed page ending the loops of its target
StopOnPageError(w, p) == TargetDone(w, p)

\* Lines 238-243: `continue` after a failed request or parse of page p
OnPageError(w, p) ==
    NextPosition(w, p, QuotaReached(articles_processed, max_articles_per_company))

\* The value of `slept` if line 236 did not run
SkippedListingDelay == slept

\* Line 236, time.sleep(1): the value of `slept` after it
ListingDelay == TRUE

\* Lines 213-221; title, link, date and summary are read off the entry and
\* kept out of the record here (the link of each record is in `links`)
Data(comp, yr, full_article) ==
    [company |-> comp, year |-> yr, full_article |-> full_article]

Goto(where) == /\ pc' = where.pc
               /\ i' = where.i
               /\ j' = where.j

\* What preceded a listing request
Gap == IF last_request.kind = "none" THEN [kind |-> "none"]
       ELSE [kind |-> "gap", prev |-> last_request, slept |-> slept]

Init == /\ \E call \in Calls : /\ sc_id = call[1].sc_id
                              /\ years = call[1].years
                              /\ max_articles_per_company = call[2]
        /\ pc = "start"
        /\ c_idx = 1
        /\ y_idx = 1
        /\ max_page_no = 1
        /\ max_next = 1
        /\ i = 0
        /\ j = 1
        /\ articles = <<>>
        /\ k = 1
        /\ articles_processed = 0
        /\ total_articles_processed = 0
        /\ all_data = <<>>
        /\ fetched = <<>>
        /\ failed_pages = <<>>
        /\ valid_found = 0
        /\ extract_calls = 0
        /\ links = <<>>
        /\ last_attempt = [kind |-> "none"]
        /\ last_request = [kind |-> "none"]
        /\ slept = FALSE
        /\ last_gap = [kind |-> "none"]
        /\ n_faults = 0
        /\ PageIdle
        /\ ExtractIdle

\* Lines 153-166: the first request of a target, get_page_no, and the entry
\* into the loops.
StartTarget ==
    /\ pc = "start"
    /\ \E page \in CrawlFirstPages :
          /\ IsFailure(page) => n_faults < MaxFaults
          /\ n_faults' = IF IsFailure(page) THEN n_faults + 1 ELSE n_faults
          /\ max_page_no' = get_page_no(page, BaselineNext)[1]
          /\ max_next' = get_page_no(page, BaselineNext)[2] + 1
          /\ last_request' = [kind |-> "pagination",
                              outcome |-> IF IsFailure(page) THEN page.kind ELSE "ok",
                              quota_met |-> FALSE]
    /\ articles_processed' = 0
    /\ IF 0 \in WindowRange(max_next') /\ 1 \in PageRange(max_page_no')
       THEN Goto(FetchAt(0, 1))
       ELSE Goto(TargetDone(0, 1))
    /\ last_gap' = Gap
    /\ slept' = FALSE
    /\ fetched' = <<>>
    /\ valid_found' = 0
    /\ extract_calls' = 0
    /\ links' = <<>>
    /\ last_attempt' = [kind |-> "none"]
    /\ articles' = <<>>
    /\ k' = 1
    /\ UNCHANGED <<sc_id, years, max_articles_per_company, c_idx, y_idx,
                   total_articles_processed, all_data, failed_pages,
                   pagevars, extractvars>>

\* Lines 168-175 and 238-243: the request of listing page j of window i
FetchPage ==
    /\ pc = "fetch"
    /\ fetched' = Append(fetched, <<i, j>>)
    /\ last_gap' = Gap
    /\ slept' = FALSE
    /\ \/ \E failure \in {"transport_error", "parse_error"} :
             /\ n_faults < MaxFaults
             /\ n_faults' = n_faults + 1
             /\ failed_pages' = Append(failed_pages, <<c_idx, y_idx, i, j>>)
             /\ last_request' = [kind |-> "page", outcome |-> failure, quota_met |-> FALSE]
             /\ Goto(OnPageError(i, j))
             /\ UNCHANGED <<articles, k, valid_found>>
       \/ \E entries \in ListingEntries :
             /\ articles' = entries
             /\ k' = 1
             /\ valid_found' = valid_found + CountValid(entries)
             /\ last_request' = [kind |-> "page", outcome |-> "ok", quota_met |-> FALSE]
             /\ pc' = "scan"
             /\ UNCHANGED <<i, j, failed_pages, n_faults>>
    /\ UNCHANGED <<sc_id, years, max_articles_per_company, c_idx, y_idx,
                   max_page_no, max_next, articles_processed, total_articles_processed,
                   all_data, extract_calls, links, last_attempt, pagevars, extractvars>>

\* Lines 177-229: one entry of the page, the limit not reached
ScanEntry ==
    /\ pc = "scan"
    /\ articles # <<>>
    /\ ~QuotaReached(articles_processed, max_articles_per_company)
    /\ articles' = Tail(articles)
    /\ k' = k + 1
    /\ \/ /\ Head(articles) # "valid"
          /\ UNCHANGED <<articles_processed, total_articles_processed, all_data,
                         extract_calls, links, last_attempt, n_faults>>
       \/ /\ Head(articles) = "valid"
          /\ articles_processed' = articles_processed + 1
          /\ total_articles_processed' = total_articles_processed + 1
          /\ \E page \in CrawlArticlePages :
                /\ IsFailure(page) => n_faults < MaxFaults
                /\ n_faults' = IF IsFailure(page) THEN n_faults + 1 ELSE n_faults
                /\ extract_calls' = extract_calls + 1
                /\ last_attempt' = [kind |-> "call", link |-> <<i, j, k>>, outcome |-> page.kind]
                /\ links' = Append(links, <<i, j, k>>)
                /\ all_data' = Append(all_data, Data(company, year, extract_full_article(page)))
    /\ UNCHANGED <<pc, sc_id, years, max_articles_per_company, c_idx, y_idx,
                   max_page_no, max_next, i, j, fetched, failed_pages,
                   valid_found, last_request, slept, last_gap, pagevars, extractvars>>

\* Lines 179-181 and 231-236: the scan of the page has ended, at its last
\* entry or on the limit.
EndPage ==
    /\ pc = "scan"
    /\ articles = <<>> \/ QuotaReached(articles_processed, max_articles_per_company)
    /\ IF QuotaReached(articles_processed, max_articles_per_company)
       THEN /\ Goto(AfterWindow(i, j, TRUE))
            /\ last_request' = [last_request EXCEPT !.quota_met = TRUE]
            /\ UNCHANGED slept
       ELSE /\ slept' = ListingDelay
            /\ Goto(NextPosition(i, j, FALSE))
            /\ UNCHANGED last_request
    /\ articles' = <<>>       \* the loop is left; line 175 assigns articles before it is read again
    /\ k' = 1
    /\ UNCHANGED <<sc_id, years, max_articles_per_company, c_idx, y_idx,
                   max_page_no, max_next, articles_processed,
                   total_articles_processed, all_data, fetched, failed_pages,
                   valid_found, extract_calls, links, last_attempt, last_gap, n_faults,
                   pagevars, extractvars>>

\* Lines 151-152: the next year of the company, or the next company
NextTarget ==
    /\ pc = "target_done"
    /\ IF y_idx < Len(years)
       THEN /\ y_idx' = y_idx + 1
            /\ pc' = "start"
            /\ UNCHANGED c_idx
       ELSE IF c_idx < Len(sc_id)
       THEN /\ c_idx' = c_idx + 1
            /\ y_idx' = 1
            /\ pc' = "start"
       ELSE /\ pc' = "done"
            /\ UNCHANGED <<c_idx, y_idx>>
    /\ UNCHANGED <<sc_id, years, max_articles_per_company, max_page_no, max_next,
                   i, j, articles, k, articles_processed, total_articles_processed,
                   all_data, fetched, failed_pages, valid_found, extract_calls,
                   links, last_attempt, last_request, slept, last_gap, n_faults,
                   pagevars, extractvars>>

Next == StartTarget \/ FetchPage \/ ScanEntry \/ EndPage \/ NextTarget

Spec == Init /\ [][Next]_vars

-----------------------------------------------------------------------------
(* Properties of save_company_data_with_full_articles (Spec) *)

\* The listing pages of nw windows of np pages each, window-major
PagesInOrder(nw, np) ==
    [n \in 1..(nw * np) |-> <<(n - 1) \div np, ((n - 1) % np) + 1>>]

\* No listing page of the current target failed
NoPageFailed ==
    \A n \in 1..Len(failed_pages) :
        <<failed_pages[n][1], failed_pages[n][2]>> # <<c_idx, y_idx>>

RecordsOf(comp) == {n \in 1..Len(all_data) : all_data[n].company = comp}

TargetRecords ==
    {n \in 1..Len(all_data) : all_data[n].company = company /\ all_data[n].year = year}

\* <<w1, p1, k1>> comes before <<w2, p2, k2>> in window, page, scan order
Before(a, b) ==
    \/ a[1] < b[1]
    \/ a[1] = b[1] /\ a[2] < b[2]
    \/ a[1] = b[1] /\ a[2] = b[2] /\ a[3] < b[3]

\* C1: with a quota q configured, no company ever has more than q records in
\* all_data, its years, windows and pages taken together.
C1_QuotaPerCompany ==
    Truthy(max_articles_per_company) =>
        \A n \in 1..Len(sc_id) :
            Cardinality(RecordsOf(sc_id[n])) <= max_articles_per_company[1]

\* C2: for a target with quota q and no failed listing page, at most q
\* extractions are ever made, no listing page is requested once q is reached,
\* and the target ends with exactly q records and q extractions whenever its
\* pages hold q valid entries. (valid_found counts the valid entries of the
\* pages requested; a target that ends before all its pages were requested
\* may hold any number of further entries on the others.)
C2_QuotaExact ==
    Truthy(max_articles_per_company) =>
        /\ extract_calls <= max_articles_per_company[1]
        /\ articles_processed <= max_articles_per_company[1]
        /\ pc = "fetch" => articles_processed < max_articles_per_company[1]
        /\ (pc = "target_done" /\ NoPageFailed
              /\ (valid_found >= max_articles_per_company[1]
                    \/ fetched # PagesInOrder(max_next, max_page_no))) =>
                /\ articles_processed = max_articles_per_company[1]
                /\ extract_calls = max_articles_per_company[1]
                /\ Cardinality(TargetRecords) = max_articles_per_company[1]

\* A target with quota 1 whose first page holds two valid entries ended after
\* one extraction, its second page not requested.
C2_Witness ==
    /\ pc = "target_done"
    /\ max_articles_per_company = <<1>>
    /\ NoPageFailed
    /\ max_page_no = 2
    /\ fetched = <<<<0, 1>>>>
    /\ valid_found = 2
    /\ extract_calls = 1
    /\ Len(all_data) = 1

\* C3 as stated: without quota and failures, a target requests the pages
\* 1..pageCount of every window 0..continuationWindows, continuationWindows
\* (max_next after line 162) included.
C3_WindowsInclusive ==
    (pc = "target_done" /\ ~Truthy(max_articles_per_company) /\ NoPageFailed) =>
        fetched = PagesInOrder(max_next + 1, max_page_no)

\* C3 as amended: without quota and failures, a target requests the pages
\* 1..pageCount of the windows 0..continuationWindows-1, which is window 0
\* alone, in page order; the records are appended in page order and then scan
\* order, one for every valid entry of those pages.
C3_WindowsExclusive ==
    (pc = "target_done" /\ ~Truthy(max_articles_per_company) /\ NoPageFailed) =>
        /\ max_next = 1
        /\ fetched = PagesInOrder(max_next, max_page_no)
        /\ \A n \in 1..Len(fetched) : fetched[n][1] = 0
        /\ Len(links) = valid_found
        /\ Cardinality(TargetRecords) = valid_found
        /\ \A m, n \in 1..Len(links) : m < n => Before(links[m], links[n])

\* Two pages of window 0 with two and one valid entries gave three records,
\* and no request went to window 1.
C3_Witness ==
    /\ pc = "target_done"
    /\ ~Truthy(max_articles_per_company)
    /\ NoPageFailed
    /\ fetched = <<<<0, 1>>, <<0, 2>>>>
    /\ links = <<<<0, 1, 1>>, <<0, 1, 2>>, <<0, 2, 1>>>>
    /\ Len(all_data) = 3

\* C4: a listing page that cannot be fetched or parsed stops nothing: a
\* target ends only with all its pages requested (or its quota reached), every
\* valid entry of the pages that did load has its record, the run goes on to
\* the targets after it and ends only after the last one.
C4_PageFailureIsolated ==
    /\ pc = "target_done" =>
          \/ QuotaReached(articles_processed, max_articles_per_company)
          \/ fetched = PagesInOrder(max_next, max_page_no)
    /\ (pc = "target_done" /\ ~Truthy(max_articles_per_company)) =>
          Cardinality(TargetRecords) = valid_found
    /\ pc = "done" => (c_idx = Len(sc_id) /\ y_idx = Len(years))

\* Page 1 of the first target failed; its page 2 was requested and gave a
\* record, the second target gave another, and the run ended.
C4_Witness ==
    /\ pc = "done"
    /\ failed_pages = <<<<1, 1, 0, 1>>>>
    /\ Len(sc_id) * Len(years) = 2
    /\ \E n \in 1..Len(all_data) :
          all_data[n].company = sc_id[1] /\ all_data[n].year = years[1]
    /\ Cardinality(TargetRecords) >= 1

\* C9 as stated: every listing request but the first of the run comes after
\* a time.sleep(1) that ran since the listing request before it.
C9_DelayBeforeEveryListingFetch ==
    last_gap.kind = "gap" => last_gap.slept

\* C9 as amended: between two consecutive listing requests time.sleep(1)
\* runs exactly when the earlier one is a request of the page loop that
\* loaded and whose scan did not end on the quota; the request made by
\* get_page_no, a failed request and a page that reaches the quota are
\* followed by the next listing request without it.
C9_DelayAfterScannedPage ==
    last_gap.kind = "gap" =>
        (last_gap.slept <=> /\ last_gap.prev.kind = "page"
                            /\ last_gap.prev.outcome = "ok"
                            /\ ~last_gap.prev.quota_met)

\* A page loaded, was scanned to its end, and the next listing request came
\* after the delay.
C9_Witness ==
    /\ last_gap.kind = "gap"
    /\ last_gap.prev.kind = "page"
    /\ last_gap.prev.outcome = "ok"
    /\ last_gap.slept
    /\ Len(fetched) = 2

\* C10: every call of extract_full_article leaves exactly one record, with
\* the fetch sentinel when the request failed and the parse sentinel when the
\* parse failed, and the counter of the target equals its number of records.
C10_RecordPerAttempt ==
    /\ total_articles_processed = Len(all_data)
    /\ pc \in {"fetch", "scan", "target_done", "done"} =>
          /\ articles_processed = Cardinality(TargetRecords)
          /\ extract_calls = articles_processed
          /\ Len(links) = articles_processed
    /\ last_attempt.kind = "call" =>
          LET text == all_data[Len(all_data)].full_article
          IN  /\ last_attempt.outcome = "transport_error" => text = FetchSentinel
              /\ last_attempt.outcome = "parse_error" => text = ParseSentinel
              /\ last_attempt.outcome = "ok" => text \notin {FetchSentinel, ParseSentinel}

\* The first entry of a page could not be fetched and has its record with the
\* sentinel; the entry after it was extracted and has its record too.
C10_Witness ==
    /\ links = <<<<0, 1, 1>>, <<0, 1, 2>>>>
    /\ Len(all_data) = 2
    /\ all_data[1].full_article = FetchSentinel
    /\ all_data[2].full_article = <<"a", " ", "b">>
    /\ articles_processed = 2

-----------------------------------------------------------------------------
(* Properties of get_page_no (PageSpec) *)

PageCount == page_result[1]

LastAnchor == first_page.anchors[Len(first_page.anchors)]

PurelyNumeric == SelectSeq(first_page.anchors, IsDigitStr)

\* C5: for a non-empty sequence of anchor texts, the page count is the value
\* of the last text if that text is purely numeric, otherwise the largest
\* value among the purely numeric texts, otherwise 1.
C5_PageCountRule ==
    (page_result # "pending" /\ first_page.kind = "region" /\ first_page.anchors # <<>>) =>
        PageCount = IF IsDigitStr(LastAnchor) THEN DecimalValue(LastAnchor)
                    ELSE IF PurelyNumeric # <<>>
                         THEN MaxOf([n \in 1..Len(PurelyNumeric) |-> DecimalValue(PurelyNumeric[n])])
                         ELSE 1

\* C6: whatever the first listing fetch gives, get_page_no returns, and the
\* page count it returns is an integer that is at least 1.
C6_PageCountAtLeastOne ==
    page_result # "pending" => (PageCount \in Int /\ PageCount >= 1)

-----------------------------------------------------------------------------
(* Properties of extract_full_article (ExtractSpec) *)

\* The paragraphs the selector cascade settles on (lines 85-96)
RECURSIVE MatchedParagraphs(_)
MatchedParagraphs(regions) ==
    IF regions = <<>> THEN <<>>
    ELSE IF Head(regions) # <<>> THEN ParagraphTexts(Head(regions))
    ELSE MatchedParagraphs(Tail(regions))

\* C7: with two or more non-empty paragraphs in the matched region, the
\* normalized text is the trimmed paragraphs, whitespace runs inside each
\* collapsed to one space, joined by exactly one blank line.
C7_ParagraphsJoinedByBlankLine ==
    (ret # "pending" /\ article_page.kind = "ok"
        /\ Len(MatchedParagraphs(article_page.regions)) >= 2) =>
        LET ps == MatchedParagraphs(article_page.regions)
        IN  normalized = Join([n \in 1..Len(ps) |-> CollapseWhitespace(ps[n])], BlankLine)

\* C8: a normalized text longer than 15,000 characters is returned as its
\* first 15,000 characters followed by "... [Content truncated]"; a shorter
\* one is returned unchanged; no result of a fetched page is longer than
\* 15,000 characters plus the marker.
C8_TruncationBound ==
    (ret # "pending" /\ article_page.kind = "ok") =>
        /\ IF Len(normalized) > 15000
           THEN /\ Len(ret) = 15000 + 23
                /\ \A n \in 1..15000 : ret[n] = normalized[n]
                /\ \A n \in 1..23 : ret[15000 + n] = TruncationMarker[n]
           ELSE ret = normalized
        /\ Len(ret) <= 15000 + 23

\* A normalized text of more than 15,000 characters was returned as 15,023
\* characters.
C8_Witness ==
    /\ ret # "pending"
    /\ article_page.kind = "ok"
    /\ Len(normalized) > 15000
    /\ Len(ret) = 15023

====
